---- MODULE Spec2Model ----
(***************************************************************************)
(* Model of broker/sub.go: Ssid, the Subscribers set and the              *)
(* SubscriptionCounters registry (a mutex-guarded map from an Ssid's       *)
(* combined hash to a reference-counted subCounter).                       *)
(***************************************************************************)
EXTENDS Integers, Sequences, FiniteSets, TLC

(***************************************************************************)
(* Bounds of the model.                                                    *)
(***************************************************************************)
\* number of concurrent callers of the registry
NumProcs == 2
\* total number of calls (Increment, Decrement, All) made in one behaviour
\* by callers that draw their arguments from all of TestSsids and Channels
MaxCalls == 3
\* total number of calls made in one behaviour by callers that all use one
\* Ssid and one channel
MaxCallsOne == 4

\* number of distinct Subscriber handles
NumHandles == 2
\* total number of AddUnique calls made in one behaviour
MaxAdds == 4

\* total number of calls made in one behaviour under fair scheduling
MaxCallsFair == 3
MaxCallsFirst == 3
\* number of query tokens of a parsed channel
MaxTokens == 2
\* number of times GetHashCode, and Contract, is called on one Ssid
MaxHashCalls == 2

Procs == 1..NumProcs

\* Subscriber values: interface values compared by identity
Handles == 1..NumHandles

\* "no caller" / "no value"
Nil == 0

(***************************************************************************)
(* Inputs.  A Go string is the sequence of its bytes.                      *)
(***************************************************************************)
\* "a/b"
ChanAB == <<97, 47, 98>>
\* "c"
ChanC == <<99>>
Channels == {ChanAB, ChanC}

\* uint32 values for contracts and query tokens (2147483647 has bits 0..30 set)
Words == {0, 1, 42, 2147483647}

\* the values of security.Channel.Query: token hashes, in order
Queries == UNION {[1..n -> Words] : n \in 0..MaxTokens}

\* <<1,42>> and <<42,1>> are distinct Ssids with the same combined hash (43);
\* <<1,7>> hashes to 6.
TestSsids == {<<1, 42>>, <<42, 1>>, <<1, 7>>}

(***************************************************************************)
(* Ssid                                                                    *)
(***************************************************************************)
\* faulty variant: the query tokens come before the contract
NewSsid_ContractLast(contract, query) == query \o <<contract>>

\* func NewSsid(contract uint32, c *security.Channel) Ssid, query being c.Query:
\* append(ssid, contract), then append(ssid, c.Query...)
NewSsid(contract, query) ==
    LET ssid0 == <<>>
        ssid1 == Append(ssid0, contract)
    IN  ssid1 \o query

\* func (s Ssid) Contract() uint32
Contract(s) == s[1]

\* faulty variant: the elements are added (mod 2^30) instead of xored
XorBits_Plus(a, b) == ((a % 1073741824) + (b % 1073741824)) % 1073741824

RECURSIVE XorBits(_, _)
\* a ^ b on unsigned integers, bit by bit
XorBits(a, b) ==
    IF a = 0 THEN b
    ELSE IF b = 0 THEN a
    ELSE (((a % 2) + (b % 2)) % 2) + (2 * XorBits(a \div 2, b \div 2))

RECURSIVE XorFold(_, _, _)
\* the loop of GetHashCode: h ^= s[i] for i from index `i` to the end
XorFold(h, s, i) ==
    IF i > Len(s) THEN h ELSE XorFold(XorBits(h, s[i]), s, i + 1)

\* func (s Ssid) GetHashCode() uint32
GetHashCode(s) == XorFold(s[1], s, 2)

(***************************************************************************)
(* SubscriptionCounters: the map                                           *)
(***************************************************************************)
\* make(map[uint32]*subCounter)
NewSubscriptionCounters == [k \in {} |-> Nil]

\* faulty variant: a new subCounter seeded with count 1
NewSubCounter_SeededOne(ssid, channel) ==
    [Ssid |-> ssid, Channel |-> channel, Counter |-> 1]

\* &subCounter{Ssid: ssid, Channel: channel, Counter: 0}
NewSubCounter(ssid, channel) == [Ssid |-> ssid, Channel |-> channel, Counter |-> 0]

\* s.m[key] = meter
MapPut(mm, key, meter) ==
    [k \in DOMAIN mm \cup {key} |-> IF k = key THEN meter ELSE mm[k]]

\* delete(s.m, key)
MapDelete(mm, key) == [k \in DOMAIN mm \ {key} |-> mm[k]]

\* faulty variant: a bucket found under the key is kept only when it has the same Ssid
getOrCreate_Exact(mm, ssid, channel) ==
    LET key == GetHashCode(ssid)
    IN  IF key \in DOMAIN mm /\ mm[key].Ssid = ssid THEN mm
        ELSE MapPut(mm, key, NewSubCounter(ssid, channel))

\* faulty variant: a bucket found under the key takes the Ssid and channel of
\* the call and keeps its count
getOrCreate_LastWins(mm, ssid, channel) ==
    LET key == GetHashCode(ssid)
    IN  IF key \in DOMAIN mm
        THEN MapPut(mm, key, [Ssid |-> ssid, Channel |-> channel,
                              Counter |-> mm[key].Counter])
        ELSE MapPut(mm, key, NewSubCounter(ssid, channel))

\* getOrCreate: the map after the call (the meter returned is the one at the
\* Ssid's hash key)
getOrCreate(mm, ssid, channel) ==
    LET key == GetHashCode(ssid)
    IN  IF key \in DOMAIN mm THEN mm
        ELSE MapPut(mm, key, NewSubCounter(ssid, channel))

\* faulty variant: the counter goes up by two
CounterInc_Twice(mm, key) == [mm EXCEPT ![key].Counter = @ + 2]

\* m.Counter++
CounterInc(mm, key) == [mm EXCEPT ![key].Counter = @ + 1]

\* faulty variant: the counter of a copy of the bucket goes down, the map's
\* bucket keeps its count
CounterDec_OnCopy(mm, key) == mm

\* faulty variant: the counter is set to zero
CounterDec_ToZero(mm, key) == [mm EXCEPT ![key].Counter = 0]

\* m.Counter--
CounterDec(mm, key) == [mm EXCEPT ![key].Counter = @ - 1]

\* faulty variant: the bucket is removed only below zero
RemoveIfUnused_Negative(mm, key, ssid) ==
    IF mm[key].Counter < 0 THEN MapDelete(mm, GetHashCode(ssid)) ELSE mm

\* faulty variant: the bucket is removed while one subscription is left
RemoveIfUnused_AtOne(mm, key, ssid) ==
    IF mm[key].Counter <= 1 THEN MapDelete(mm, GetHashCode(ssid)) ELSE mm

\* faulty variant: the whole map is emptied when a bucket becomes unused
RemoveIfUnused_Clear(mm, key, ssid) ==
    IF mm[key].Counter <= 0 THEN NewSubscriptionCounters ELSE mm

\* if m.Counter <= 0 { delete(s.m, ssid.GetHashCode()) }
RemoveIfUnused(mm, key, ssid) ==
    IF mm[key].Counter <= 0 THEN MapDelete(mm, GetHashCode(ssid)) ELSE mm

\* []byte(m.Channel): a fresh byte slice with the bytes of the string
ToBytes(str) == [i \in 1..Len(str) |-> str[i]]

\* cluster.Subscription{Ssid: m.Ssid, Channel: []byte(m.Channel)}
CloneEntry(meter) == [Ssid |-> meter.Ssid, Channel |-> ToBytes(meter.Channel)]

\* the orders in which `for _, m := range s.m` may visit the keys
RangeOrders(mm) ==
    {o \in [1..Cardinality(DOMAIN mm) -> DOMAIN mm] :
        \A i, j \in DOMAIN o : i # j => o[i] # o[j]}

\* faulty variant: the loop misses the last bucket
CloneOf_Short(mm, o) == [i \in 1..(Len(o) - 1) |-> CloneEntry(mm[o[i]])]

\* the clone built by All() when the map is ranged over in order o
CloneOf(mm, o) == [i \in DOMAIN o |-> CloneEntry(mm[o[i]])]

(***************************************************************************)
(* State                                                                   *)
(***************************************************************************)
VARIABLES
    m,      \* SubscriptionCounters.m
    mu,     \* the embedded sync.Mutex: Nil, or the caller holding it
    pc,     \* pc[p]: where caller p is
    call,   \* call[p]: the arguments of p's call in progress
    local,  \* local[p]: the local variable `key` (Decrement) or `meter` (Increment)
    heap,   \* the slices allocated by All(): address -> contents
    clone,  \* clone[p]: address of the slice p's All() is building
    ret,    \* ret[p]: address of the slice p's last All() returned
    log,    \* history: completed calls, in the order they released the lock
    pre,    \* history: the map as the caller holding the lock found it
    harness \* the inputs the callers draw from, how many calls they make, and
            \* whether the history names the caller and the channel of each call

cvars == <<m, mu, pc, call, local, heap, clone, ret, log, pre, harness>>

VARIABLES
    subs,   \* the Subscribers slice *s
    spc,    \* spc[p]: where caller p is in AddUnique
    sarg,   \* sarg[p]: the value p's AddUnique was called with
    sbuf,   \* sbuf[p]: the slice p read as the first operand of append
    slog,   \* history: the values of the completed AddUnique calls
    sraced, \* history: some call on the slice began while another was in progress
    sres,   \* sres[p]: the value p's Contains call is about to return
    sscans  \* history: the number of completed Contains calls

svars == <<subs, spc, sarg, sbuf, slog, sraced, sres, sscans>>

VARIABLES
    xcontract, \* the contract NewSsid is called with
    xquery,    \* c.Query of the channel NewSsid is called with
    xssid,     \* the Ssid NewSsid returned; <<>> before the call
    xhashes,   \* the results of the GetHashCode() calls on xssid, in order
    xscopes    \* the results of the Contract() calls on xssid, in order

xvars == <<xcontract, xquery, xssid, xhashes, xscopes>>

vars == <<cvars, svars, xvars>>

NoCall == [op |-> "none", ssid |-> <<>>, channel |-> <<>>]

InFlight == Cardinality({p \in Procs : pc[p] # "idle"})

InitCounters ==
    /\ mu = Nil
    /\ pc = [p \in Procs |-> "idle"]
    /\ call = [p \in Procs |-> NoCall]
    /\ local = [p \in Procs |-> Nil]
    /\ heap = [a \in {} |-> <<>>]
    /\ clone = [p \in Procs |-> Nil]
    /\ ret = [p \in Procs |-> Nil]
    /\ log = <<>>
    /\ pre = NewSubscriptionCounters

\* faulty variant: Lock does not wait for the holder
Lock_NoExclusion(p) == mu' = p

\* s.Lock()
Lock(p) == mu = Nil /\ mu' = p

\* defer s.Unlock(), run when the call returns
Unlock(p) == mu # Nil /\ mu' = Nil

\* the call returns to its caller
Return(p) ==
    /\ pc' = [pc EXCEPT ![p] = "idle"]
    /\ log' = Append(log, [op |-> call[p].op, ssid |-> call[p].ssid,
                            proc |-> IF harness.named THEN p ELSE Nil,
                            channel |-> IF harness.chans THEN call[p].channel
                                        ELSE <<>>,
                            had |-> call[p].op # "All"
                                    /\ GetHashCode(call[p].ssid) \in DOMAIN pre])
    /\ call' = [call EXCEPT ![p] = NoCall]
    /\ local' = [local EXCEPT ![p] = Nil]
    /\ pre' = NewSubscriptionCounters
    /\ UNCHANGED harness

(***************************************************************************)
(* Increment(ssid, channel)                                                *)
(***************************************************************************)
Increment_Call(p) ==
    /\ UNCHANGED <<svars, xvars>>
    /\ pc[p] = "idle"
    /\ Len(log) + InFlight < harness.calls
    /\ \E ssid \in harness.ssids, channel \in harness.channels :
          call' = [call EXCEPT ![p] = [op |-> "Increment", ssid |-> ssid, channel |-> channel]]
    /\ pc' = [pc EXCEPT ![p] = "inc_lock"]
    /\ UNCHANGED <<m, mu, local, heap, clone, ret, log, pre, harness>>

Increment_Lock(p) ==
    /\ UNCHANGED <<svars, xvars>>
    /\ pc[p] = "inc_lock"
    /\ Lock(p)
    /\ pre' = m
    /\ pc' = [pc EXCEPT ![p] = "inc_get"]
    /\ UNCHANGED <<m, call, local, heap, clone, ret, log, harness>>

\* m := s.getOrCreate(ssid, channel)
Increment_getOrCreate(p) ==
    /\ UNCHANGED <<svars, xvars>>
    /\ pc[p] = "inc_get"
    /\ m' = getOrCreate(m, call[p].ssid, call[p].channel)
    /\ local' = [local EXCEPT ![p] = GetHashCode(call[p].ssid)]
    /\ pc' = [pc EXCEPT ![p] = "inc_add"]
    /\ UNCHANGED <<mu, call, heap, clone, ret, log, pre, harness>>

\* m.Counter++
Increment_Add(p) ==
    /\ UNCHANGED <<svars, xvars>>
    /\ pc[p] = "inc_add"
    /\ m' = CounterInc(m, local[p])
    /\ pc' = [pc EXCEPT ![p] = "inc_unlock"]
    /\ UNCHANGED <<mu, call, local, heap, clone, ret, log, pre, harness>>

Increment_Unlock(p) ==
    /\ UNCHANGED <<svars, xvars>>
    /\ pc[p] = "inc_unlock"
    /\ Unlock(p)
    /\ Return(p)
    /\ UNCHANGED <<m, heap, clone, ret>>

Increment(p) ==
    \/ Increment_Call(p)
    \/ Increment_Lock(p)
    \/ Increment_getOrCreate(p)
    \/ Increment_Add(p)
    \/ Increment_Unlock(p)

(***************************************************************************)
(* Decrement(ssid)                                                         *)
(***************************************************************************)
Decrement_Call(p) ==
    /\ UNCHANGED <<svars, xvars>>
    /\ pc[p] = "idle"
    /\ Len(log) + InFlight < harness.calls
    /\ \E ssid \in harness.ssids :
          call' = [call EXCEPT ![p] = [op |-> "Decrement", ssid |-> ssid, channel |-> <<>>]]
    /\ pc' = [pc EXCEPT ![p] = "dec_lock"]
    /\ UNCHANGED <<m, mu, local, heap, clone, ret, log, pre, harness>>

Decrement_Lock(p) ==
    /\ UNCHANGED <<svars, xvars>>
    /\ pc[p] = "dec_lock"
    /\ Lock(p)
    /\ pre' = m
    /\ pc' = [pc EXCEPT ![p] = "dec_find"]
    /\ UNCHANGED <<m, call, local, heap, clone, ret, log, harness>>

\* faulty variant: the lookup is done with getOrCreate
Decrement_Find_Creates(p) ==
    /\ UNCHANGED <<svars, xvars>>
    /\ pc[p] = "dec_find"
    /\ m' = getOrCreate(m, call[p].ssid, <<>>)
    /\ local' = [local EXCEPT ![p] = GetHashCode(call[p].ssid)]
    /\ pc' = [pc EXCEPT ![p] = "dec_sub"]
    /\ UNCHANGED <<mu, call, heap, clone, ret, log, pre, harness>>

\* faulty variant: when the bucket is absent the call returns at once, without
\* releasing the lock
Decrement_Find_ReturnsLocked(p) ==
    /\ UNCHANGED <<svars, xvars>>
    /\ pc[p] = "dec_find"
    /\ IF GetHashCode(call[p].ssid) \in DOMAIN m
       THEN /\ local' = [local EXCEPT ![p] = GetHashCode(call[p].ssid)]
            /\ pc' = [pc EXCEPT ![p] = "dec_sub"]
            /\ UNCHANGED <<m, mu, call, heap, clone, ret, log, pre, harness>>
       ELSE /\ Return(p)
            /\ UNCHANGED <<m, mu, heap, clone, ret>>

\* key := ssid.GetHashCode(); if m, exists := s.m[key]; exists {
Decrement_Find(p) ==
    /\ UNCHANGED <<svars, xvars>>
    /\ pc[p] = "dec_find"
    /\ local' = [local EXCEPT ![p] = GetHashCode(call[p].ssid)]
    /\ pc' = [pc EXCEPT ![p] =
                 IF GetHashCode(call[p].ssid) \in DOMAIN m THEN "dec_sub" ELSE "dec_unlock"]
    /\ UNCHANGED <<m, mu, call, heap, clone, ret, log, pre, harness>>

\* m.Counter--
Decrement_Sub(p) ==
    /\ UNCHANGED <<svars, xvars>>
    /\ pc[p] = "dec_sub"
    /\ m' = CounterDec(m, local[p])
    /\ pc' = [pc EXCEPT ![p] = "dec_gc"]
    /\ UNCHANGED <<mu, call, local, heap, clone, ret, log, pre, harness>>

\* if m.Counter <= 0 { delete(...) }
Decrement_Remove(p) ==
    /\ UNCHANGED <<svars, xvars>>
    /\ pc[p] = "dec_gc"
    /\ m' = RemoveIfUnused(m, local[p], call[p].ssid)
    /\ pc' = [pc EXCEPT ![p] = "dec_unlock"]
    /\ UNCHANGED <<mu, call, local, heap, clone, ret, log, pre, harness>>

Decrement_Unlock(p) ==
    /\ UNCHANGED <<svars, xvars>>
    /\ pc[p] = "dec_unlock"
    /\ Unlock(p)
    /\ Return(p)
    /\ UNCHANGED <<m, heap, clone, ret>>

Decrement(p) ==
    \/ Decrement_Call(p)
    \/ Decrement_Lock(p)
    \/ Decrement_Find(p)
    \/ Decrement_Sub(p)
    \/ Decrement_Remove(p)
    \/ Decrement_Unlock(p)

(***************************************************************************)
(* All()                                                                   *)
(***************************************************************************)
\* faulty variant: every All() builds its result in the same slice
NewSlice_Reused(h) == 1

\* make([]cluster.Subscription, 0, len(s.m)): a slice at an address not in use
NewSlice(h) == CHOOSE a \in 1..(Cardinality(DOMAIN h) + 1) : a \notin DOMAIN h

\* the heap once the slice at address a is no longer referenced
Free(h, a) == [x \in DOMAIN h \ {a} |-> h[x]]

All_Call(p) ==
    /\ UNCHANGED <<svars, xvars>>
    /\ pc[p] = "idle"
    /\ Len(log) + InFlight < harness.calls
    /\ call' = [call EXCEPT ![p] = [op |-> "All", ssid |-> <<>>, channel |-> <<>>]]
    /\ pc' = [pc EXCEPT ![p] = "all_lock"]
    /\ UNCHANGED <<m, mu, local, heap, clone, ret, log, pre, harness>>

All_Lock(p) ==
    /\ UNCHANGED <<svars, xvars>>
    /\ pc[p] = "all_lock"
    /\ Lock(p)
    /\ pre' = m
    /\ pc' = [pc EXCEPT ![p] = "all_copy"]
    /\ UNCHANGED <<m, call, local, heap, clone, ret, log, harness>>

\* clone := make(...); for _, m := range s.m { clone = append(clone, ...) }
All_Copy(p) ==
    /\ UNCHANGED <<svars, xvars>>
    /\ pc[p] = "all_copy"
    /\ \E o \in RangeOrders(m) :
          LET a == NewSlice(heap)
          IN  /\ heap' = [x \in DOMAIN heap \cup {a} |-> IF x = a THEN CloneOf(m, o) ELSE heap[x]]
              /\ clone' = [clone EXCEPT ![p] = a]
    /\ pc' = [pc EXCEPT ![p] = "all_unlock"]
    /\ UNCHANGED <<m, mu, call, local, ret, log, pre, harness>>

\* return clone: the caller drops the slice it held before
All_Unlock(p) ==
    /\ UNCHANGED <<svars, xvars>>
    /\ pc[p] = "all_unlock"
    /\ Unlock(p)
    /\ Return(p)
    /\ ret' = [ret EXCEPT ![p] = clone[p]]
    /\ clone' = [clone EXCEPT ![p] = Nil]
    /\ heap' = IF ret[p] = Nil THEN heap ELSE Free(heap, ret[p])
    /\ UNCHANGED <<m>>

All(p) ==
    \/ All_Call(p)
    \/ All_Lock(p)
    \/ All_Copy(p)
    \/ All_Unlock(p)

(***************************************************************************)
(* Subscribers: a slice of Subscriber handles, compared by identity, with  *)
(* no lock of its own                                                      *)
(***************************************************************************)
RECURSIVE ContainsFrom(_, _, _)
\* the loop of Contains from index i on: true at the first v == value
ContainsFrom(s, value, i) ==
    IF i > Len(s) THEN FALSE
    ELSE IF s[i] = value THEN TRUE
    ELSE ContainsFrom(s, value, i + 1)

\* faulty variant: the scan misses the first member
Contains_SkipFirst(s, value) == ContainsFrom(s, value, 2)

\* func (s *Subscribers) Contains(value Subscriber) bool
Contains(s, value) == ContainsFrom(s, value, 1)

\* faulty variant: the value is put in front of the members
AppendValue_Front(s, value) == <<value>> \o s

\* append(*s, value)
AppendValue(s, value) == Append(s, value)

SubsInFlight == Cardinality({p \in Procs : spc[p] # "idle"})

InitSubscribers ==
    /\ subs = <<>>
    /\ spc = [p \in Procs |-> "idle"]
    /\ sarg = [p \in Procs |-> Nil]
    /\ sbuf = [p \in Procs |-> <<>>]
    /\ slog = <<>>
    /\ sraced = FALSE
    /\ sres = [p \in Procs |-> FALSE]
    /\ sscans = 0

AddUnique_Call(p) ==
    /\ UNCHANGED <<cvars, xvars>>
    /\ spc[p] = "idle"
    /\ Len(slog) + sscans + SubsInFlight < MaxAdds
    /\ \E value \in Handles : sarg' = [sarg EXCEPT ![p] = value]
    /\ spc' = [spc EXCEPT ![p] = "contains"]
    /\ sraced' = (sraced \/ SubsInFlight > 0)
    /\ UNCHANGED <<subs, sbuf, slog, sres, sscans>>

AddUnique_Return(p) ==
    /\ spc' = [spc EXCEPT ![p] = "idle"]
    /\ slog' = Append(slog, sarg[p])
    /\ sarg' = [sarg EXCEPT ![p] = Nil]
    /\ sbuf' = [sbuf EXCEPT ![p] = <<>>]
    /\ UNCHANGED <<sraced, sres, sscans>>

\* faulty variant: the check waits while another caller is between its check
\* and its store, as if check and append were under one lock
AddUnique_Contains_Guarded(p) ==
    /\ UNCHANGED <<cvars, xvars>>
    /\ spc[p] = "contains"
    /\ \A q \in Procs \ {p} : spc[q] \notin {"append", "store"}
    /\ IF Contains(subs, sarg[p]) = FALSE
       THEN /\ spc' = [spc EXCEPT ![p] = "append"]
            /\ UNCHANGED <<subs, sarg, sbuf, slog, sraced, sres, sscans>>
       ELSE /\ AddUnique_Return(p)
            /\ UNCHANGED subs

\* if s.Contains(value) == false {
AddUnique_Contains(p) ==
    /\ UNCHANGED <<cvars, xvars>>
    /\ spc[p] = "contains"
    /\ IF Contains(subs, sarg[p]) = FALSE
       THEN /\ spc' = [spc EXCEPT ![p] = "append"]
            /\ UNCHANGED <<subs, sarg, sbuf, slog, sraced, sres, sscans>>
       ELSE /\ AddUnique_Return(p)
            /\ UNCHANGED subs

\* append(*s, value) reads *s ...
AddUnique_Append(p) ==
    /\ UNCHANGED <<cvars, xvars>>
    /\ spc[p] = "append"
    /\ sbuf' = [sbuf EXCEPT ![p] = subs]
    /\ spc' = [spc EXCEPT ![p] = "store"]
    /\ UNCHANGED <<subs, sarg, slog, sraced, sres, sscans>>

\* ... and *s = stores the result
AddUnique_Store(p) ==
    /\ UNCHANGED <<cvars, xvars>>
    /\ spc[p] = "store"
    /\ subs' = AppendValue(sbuf[p], sarg[p])
    /\ AddUnique_Return(p)

AddUnique(p) ==
    \/ AddUnique_Call(p)
    \/ AddUnique_Contains(p)
    \/ AddUnique_Append(p)
    \/ AddUnique_Store(p)

(***************************************************************************)
(* Contains(value), called on its own                                      *)
(***************************************************************************)
Contains_Call(p) ==
    /\ UNCHANGED <<cvars, xvars>>
    /\ spc[p] = "idle"
    /\ Len(slog) + sscans + SubsInFlight < MaxAdds
    /\ \E value \in Handles : sarg' = [sarg EXCEPT ![p] = value]
    /\ spc' = [spc EXCEPT ![p] = "scan"]
    /\ sraced' = (sraced \/ SubsInFlight > 0)
    /\ UNCHANGED <<subs, sbuf, slog, sres, sscans>>

\* for _, v := range *s { if v == value { return true } }; return false
Contains_Scan(p) ==
    /\ UNCHANGED <<cvars, xvars>>
    /\ spc[p] = "scan"
    /\ sres' = [sres EXCEPT ![p] = Contains(subs, sarg[p])]
    /\ spc' = [spc EXCEPT ![p] = "scanned"]
    /\ UNCHANGED <<subs, sarg, sbuf, slog, sraced, sscans>>

\* the call returns to its caller
Contains_Return(p) ==
    /\ UNCHANGED <<cvars, xvars>>
    /\ spc[p] = "scanned"
    /\ spc' = [spc EXCEPT ![p] = "idle"]
    /\ sarg' = [sarg EXCEPT ![p] = Nil]
    /\ sres' = [sres EXCEPT ![p] = FALSE]
    /\ sscans' = sscans + 1
    /\ UNCHANGED <<subs, sbuf, slog, sraced>>

ContainsCall(p) ==
    \/ Contains_Call(p)
    \/ Contains_Scan(p)
    \/ Contains_Return(p)

(***************************************************************************)
(* Ssid: construction, Contract() and GetHashCode() on one value           *)
(***************************************************************************)
\* no Ssid is under construction
InitNoSsid ==
    /\ xcontract = 0
    /\ xquery = <<>>
    /\ xssid = <<>>
    /\ xhashes = <<>>
    /\ xscopes = <<>>

\* ssid := NewSsid(contract, c)
Ssid_New ==
    /\ UNCHANGED <<cvars, svars>>
    /\ xssid = <<>>
    /\ xssid' = NewSsid(xcontract, xquery)
    /\ UNCHANGED <<xcontract, xquery, xhashes, xscopes>>

\* ssid.GetHashCode()
Ssid_GetHashCode ==
    /\ UNCHANGED <<cvars, svars>>
    /\ xssid # <<>>
    /\ Len(xhashes) < MaxHashCalls
    /\ xhashes' = Append(xhashes, GetHashCode(xssid))
    /\ UNCHANGED <<xcontract, xquery, xssid, xscopes>>

\* ssid.Contract()
Ssid_Contract ==
    /\ UNCHANGED <<cvars, svars>>
    /\ xssid # <<>>
    /\ Len(xscopes) < MaxHashCalls
    /\ xscopes' = Append(xscopes, Contract(xssid))
    /\ UNCHANGED <<xcontract, xquery, xssid, xhashes>>

(***************************************************************************)
(* Specifications                                                          *)
(***************************************************************************)
\* a new registry; callers draw from all Ssids and channels
Init ==
    /\ InitCounters
    /\ InitSubscribers
    /\ InitNoSsid
    /\ m = NewSubscriptionCounters
    /\ harness = [ssids |-> TestSsids, channels |-> Channels, calls |-> MaxCalls,
                  named |-> FALSE, chans |-> FALSE]

\* the registry after Increment(ssid, channel) on a new registry
Subscribed(ssid, channel) ==
    CounterInc(getOrCreate(NewSubscriptionCounters, ssid, channel), GetHashCode(ssid))

\* the set-ups of SpecOne: the one Ssid the callers use, and the registry they
\* start on: a new one, or one that holds a subscription with another hash
OneSetups ==
    { [ssid |-> <<1, 42>>, m |-> NewSubscriptionCounters],
      [ssid |-> <<1, 7>>,  m |-> Subscribed(<<42, 1>>, ChanC)],
      [ssid |-> <<42, 1>>, m |-> Subscribed(<<1, 7>>, ChanC)] }

\* callers all use the same Ssid and the channel "a/b", and the history names
\* the caller of each call
InitOne ==
    /\ InitCounters
    /\ InitSubscribers
    /\ InitNoSsid
    /\ \E setup \in OneSetups :
          /\ harness = [ssids |-> {setup.ssid}, channels |-> {ChanAB},
                        calls |-> MaxCallsOne, named |-> TRUE,
                        chans |-> FALSE]
          /\ m = setup.m

\* NewSsid is about to be called with any contract and any parsed channel
InitSsid ==
    /\ InitCounters
    /\ InitSubscribers
    /\ m = NewSubscriptionCounters
    /\ harness = [ssids |-> TestSsids, channels |-> Channels, calls |-> MaxCalls,
                  named |-> FALSE, chans |-> FALSE]
    /\ xcontract \in Words
    /\ xquery \in Queries
    /\ xssid = <<>>
    /\ xhashes = <<>>
    /\ xscopes = <<>>

Next == \E p \in Procs : Increment(p) \/ Decrement(p) \/ All(p)

NextSubscribers == \E p \in Procs : AddUnique(p)

NextMembership == \E p \in Procs : AddUnique(p) \/ ContainsCall(p)

NextSsid == Ssid_New \/ Ssid_GetHashCode \/ Ssid_Contract

Spec == Init /\ [][Next]_vars

\* caller p takes the lock it waits for
Acquire(p) == Increment_Lock(p) \/ Decrement_Lock(p) \/ All_Lock(p)

\* caller p takes a step between Lock and the return of its call
Proceed(p) ==
    \/ Increment_getOrCreate(p) \/ Increment_Add(p) \/ Increment_Unlock(p)
    \/ Decrement_Find(p) \/ Decrement_Sub(p) \/ Decrement_Remove(p)
    \/ Decrement_Unlock(p)
    \/ All_Copy(p) \/ All_Unlock(p)

\* the scheduler runs every goroutine that can run, and sync.Mutex hands the
\* lock to a goroutine that keeps waiting for it (starvation mode)
Fairness == \A p \in Procs : WF_vars(Proceed(p)) /\ SF_vars(Acquire(p))

\* as InitOne, with the calls of SpecFair
InitFair ==
    /\ InitCounters
    /\ InitSubscribers
    /\ InitNoSsid
    /\ \E setup \in OneSetups :
          /\ harness = [ssids |-> {setup.ssid}, channels |-> {ChanAB},
                        calls |-> MaxCallsFair, named |-> FALSE, chans |-> FALSE]
          /\ m = setup.m

SpecFair == InitFair /\ [][Next]_vars /\ Fairness

SpecSsid == InitSsid /\ [][NextSsid]_vars

\* a new registry; callers draw from the two Ssids of one hash and all
\* channels, and the history keeps the channel of each call
InitFirst ==
    /\ InitCounters
    /\ InitSubscribers
    /\ InitNoSsid
    /\ m = NewSubscriptionCounters
    /\ harness = [ssids |-> {<<1, 42>>, <<42, 1>>}, channels |-> Channels,
                  calls |-> MaxCallsFirst, named |-> FALSE, chans |-> TRUE]

SpecFirst == InitFirst /\ [][Next]_vars

SpecOne == InitOne /\ [][Next]_vars

SpecSubscribers == Init /\ [][NextSubscribers]_vars

SpecMembership == Init /\ [][NextMembership]_vars

(***************************************************************************)
(* Vocabulary of the properties                                            *)
(***************************************************************************)
IsIncrement(e) == e.op = "Increment"
IsDecrement(e) == e.op = "Decrement"
Counts(e) == e.op \in {"Increment", "Decrement"}

\* the completed Increment and Decrement calls whose Ssid hashes to h
OnKey(h) == SelectSeq(log, LAMBDA e : Counts(e) /\ GetHashCode(e.ssid) = h)

\* the completed Increment and Decrement calls of caller p
ByProc(p) == SelectSeq(log, LAMBDA e : Counts(e) /\ e.proc = p)

\* K[j..] is n Increment(ssid, _) calls, the first on an absent bucket,
\* followed by d Decrement(ssid) calls, and nothing else
IncsThenDecs(K, j, n, d, ssid) ==
    /\ Len(K) = j + n + d - 1
    /\ K[j].had = FALSE
    /\ \A i \in j..(j + n - 1) : IsIncrement(K[i]) /\ K[i].ssid = ssid
    /\ \A i \in (j + n)..Len(K) : IsDecrement(K[i]) /\ K[i].ssid = ssid

\* caller p is between Lock and Unlock
InCriticalSection(p) ==
    pc[p] \in {"inc_get", "inc_add", "inc_unlock",
               "dec_find", "dec_sub", "dec_gc", "dec_unlock",
               "all_copy", "all_unlock"}

\* caller p holds the lock and has not yet touched the map
Entering(p) == pc[p] \in {"inc_get", "dec_find", "all_copy"}

\* the snapshot does not mention a Ssid with hash h
Excludes(snap, h) == \A i \in DOMAIN snap : GetHashCode(snap[i].Ssid) # h

\* the snapshot holds exactly one element for each bucket of mm, nothing else
SnapshotOf(snap, mm) ==
    /\ Len(snap) = Cardinality(DOMAIN mm)
    /\ \A k \in DOMAIN mm :
          \E i \in DOMAIN snap :
             snap[i] = [Ssid |-> mm[k].Ssid, Channel |-> mm[k].Channel]
    /\ \A i \in DOMAIN snap :
          \E k \in DOMAIN mm :
             snap[i] = [Ssid |-> mm[k].Ssid, Channel |-> mm[k].Channel]

NoDuplicates(s) == \A i, j \in DOMAIN s : i # j => s[i] # s[j]

Range(s) == {s[i] : i \in DOMAIN s}

(***************************************************************************)
(* Properties                                                              *)
(***************************************************************************)

\* C1 (reference counting): whenever no call holds the lock and the calls on
\* a Ssid's hash since the bucket was last absent are N Increment(ssid, ch)
\* followed by N-1 Decrement(ssid), the registry holds the bucket with count
\* 1; when they are N Increments followed by N Decrements, the bucket is gone.
C1_ReferenceCounting ==
    mu = Nil =>
        \A ssid \in harness.ssids :
            LET h == GetHashCode(ssid)
                K == OnKey(h)
            IN  \A j \in 1..Len(K) : \A n \in 1..Len(K) :
                    /\ IncsThenDecs(K, j, n, n - 1, ssid)
                          => h \in DOMAIN m /\ m[h].Counter = 1
                    /\ IncsThenDecs(K, j, n, n, ssid)
                          => h \notin DOMAIN m

\* two Increments followed by two Decrements have returned and the bucket is gone
C1_Witness ==
    /\ mu = Nil
    /\ \E ssid \in harness.ssids :
          /\ IncsThenDecs(OnKey(GetHashCode(ssid)), 1, 2, 2, ssid)
          /\ GetHashCode(ssid) \notin DOMAIN m

\* C2 (concurrent safety): when every caller has returned and each caller's
\* calls were Increment/Decrement pairs on the one Ssid, the registry has no
\* entry for that Ssid's hash, whatever the interleaving was.
C2_ConcurrentPairs ==
    (\A p \in Procs :
        /\ pc[p] = "idle"
        /\ Len(ByProc(p)) % 2 = 0
        /\ \A i \in 1..Len(ByProc(p)) :
              ByProc(p)[i].op = IF i % 2 = 1 THEN "Increment" ELSE "Decrement")
    => \A ssid \in harness.ssids : GetHashCode(ssid) \notin DOMAIN m

\* two callers each ran one pair, and both Increments came before both Decrements
C2_Witness ==
    /\ \A p \in Procs : pc[p] = "idle"
    /\ \E p, q \in Procs :
          /\ p # q
          /\ Len(ByProc(p)) = 2 /\ IsIncrement(ByProc(p)[1]) /\ IsDecrement(ByProc(p)[2])
          /\ Len(ByProc(q)) = 2 /\ IsIncrement(ByProc(q)[1]) /\ IsDecrement(ByProc(q)[2])
    /\ Len(log) = 4
    /\ IsIncrement(log[1]) /\ IsIncrement(log[2])
    /\ \A ssid \in harness.ssids : GetHashCode(ssid) \notin DOMAIN m

\* C3 (mutual exclusion): at most one caller is between Lock and Unlock, and
\* a caller that has just taken the lock finds no half-made bucket: every
\* bucket it can see has count >= 1.
C3_MutualExclusion ==
    /\ \A p, q \in Procs : p # q => ~(InCriticalSection(p) /\ InCriticalSection(q))
    /\ \A p \in Procs : Entering(p) => \A k \in DOMAIN m : m[k].Counter >= 1

\* an Increment has created its bucket, count still 0, while the All() or
\* Decrement of another caller waits for the lock
C3_Witness ==
    \E p, q \in Procs :
        /\ p # q
        /\ pc[p] = "inc_add"
        /\ m[local[p]].Counter = 0
        /\ pc[q] \in {"all_lock", "dec_lock"}

\* C4 (counter lifecycle): when the last two calls to return were an
\* Increment(ssid, ch) that found no bucket for ssid's hash and then
\* Decrement(ssid), the registry has no entry for that hash, and an All()
\* that runs next returns a snapshot without it.
C4_Lifecycle ==
    \A i \in 1..(Len(log) - 1) :
        ( /\ i + 1 = Len(log)
          /\ IsIncrement(log[i]) /\ log[i].had = FALSE
          /\ IsDecrement(log[i + 1]) /\ log[i + 1].ssid = log[i].ssid )
        => LET h == GetHashCode(log[i].ssid)
           IN  /\ (mu = Nil \/ pc[mu] \in {"all_copy", "all_unlock"})
                     => h \notin DOMAIN m
               /\ \A p \in Procs :
                     pc[p] = "all_unlock" => Excludes(heap[clone[p]], h)

\* an All() is about to return right after such an Increment and Decrement
C4_Witness ==
    /\ Len(log) = 2
    /\ IsIncrement(log[1]) /\ log[1].had = FALSE
    /\ IsDecrement(log[2]) /\ log[2].ssid = log[1].ssid
    /\ \E p \in Procs : pc[p] = "all_unlock" /\ heap[clone[p]] = <<>>

\* C5 (redundant decrement): a Decrement(ssid) that found no bucket for
\* ssid's hash leaves the map, at every step up to its return, exactly as it
\* found it: no entry created, no bucket changed.
C5_RedundantDecrement ==
    \A p \in Procs :
        ( /\ pc[p] \in {"dec_sub", "dec_gc", "dec_unlock"}
          /\ GetHashCode(call[p].ssid) \notin DOMAIN pre )
        => m = pre

\* a Decrement of an absent Ssid is about to return on a registry that holds
\* another subscription
C5_Witness ==
    \E p \in Procs :
        /\ pc[p] = "dec_unlock"
        /\ GetHashCode(call[p].ssid) \notin DOMAIN pre
        /\ DOMAIN pre # {}

\* C6 (retained entries): whenever no call holds the lock every bucket has
\* count >= 1; and a Decrement that found a bucket returns with the bucket
\* removed exactly when the decremented count is <= 0.
C6_RetainedEntries ==
    /\ mu = Nil => \A k \in DOMAIN m : m[k].Counter >= 1
    /\ \A p \in Procs :
          LET h == GetHashCode(call[p].ssid)
          IN  (pc[p] = "dec_unlock" /\ h \in DOMAIN pre)
                 => /\ h \notin DOMAIN m <=> pre[h].Counter - 1 <= 0
                    /\ h \in DOMAIN m => m[h].Counter = pre[h].Counter - 1

\* a Decrement has returned and left its bucket in the registry with count 1
C6_Witness ==
    /\ mu = Nil
    /\ Len(log) = 3
    /\ IsDecrement(log[3])
    /\ GetHashCode(log[3].ssid) \in DOMAIN m
    /\ m[GetHashCode(log[3].ssid)].Counter = 1

\* C7 (snapshot isolation): as long as a caller keeps the slice an All()
\* returned to it, no step of any call changes the slice's length or elements.
C7_SnapshotIsolation ==
    [][\A p \in Procs :
          (ret[p] # Nil /\ ret'[p] = ret[p])
              => ret[p] \in DOMAIN heap' /\ heap'[ret[p]] = heap[ret[p]]]_vars

\* a caller holds a snapshot with one element while, after later calls
\* returned, the registry holds none
C7_Witness ==
    /\ mu = Nil
    /\ \E p \in Procs :
          /\ ret[p] # Nil
          /\ Len(heap[ret[p]]) = 1
          /\ DOMAIN m = {}
          /\ IsDecrement(log[Len(log)])

\* C8 (snapshot content): the slice an All() is about to return holds exactly
\* one (Ssid, Channel) element for each bucket of the registry and nothing
\* else; after Increment([1,42], "a/b") on a new registry it is the one
\* element ([1,42], "a/b"), and so it is after a second Increment and one
\* Decrement.
C8_SnapshotContent ==
    \A p \in Procs :
        pc[p] = "all_unlock" =>
            LET snap == heap[clone[p]]
                K == OnKey(43)
            IN  /\ SnapshotOf(snap, m)
                /\ ( /\ harness.ssids = {<<1, 42>>}
                     /\ \/ IncsThenDecs(K, 1, 1, 0, <<1, 42>>)
                        \/ IncsThenDecs(K, 1, 2, 1, <<1, 42>>) )
                   => snap = <<[Ssid |-> <<1, 42>>, Channel |-> ChanAB]>>

\* an All() is about to return after Increment, Increment, Decrement of
\* [1,42] on a new registry
C8_Witness ==
    \E p \in Procs :
        /\ pc[p] = "all_unlock"
        /\ harness.ssids = {<<1, 42>>}
        /\ IncsThenDecs(OnKey(43), 1, 2, 1, <<1, 42>>)
        /\ Len(heap[clone[p]]) = 1

\* C9 (uniqueness of the Subscribers set): when no AddUnique is in progress
\* and no two AddUnique calls ever overlapped, the set holds no handle twice
\* and its size is the number of distinct handles AddUnique was called with.
C9_Uniqueness ==
    ((\A p \in Procs : spc[p] = "idle") /\ ~sraced)
    => /\ NoDuplicates(subs)
       /\ Len(subs) = Cardinality(Range(slog))

\* serialized calls that repeated a handle: more calls than members
C9_Witness ==
    /\ \A p \in Procs : spc[p] = "idle"
    /\ ~sraced
    /\ Len(slog) = MaxAdds
    /\ Len(subs) = 2
    /\ slog[1] = slog[2]

\* C10 (hash collision merges buckets): when the last two calls to return
\* were Increment(a, ca) on an absent bucket and a call with a distinct Ssid b
\* of the same combined hash, then after Increment(b, cb) the hash has one
\* bucket with count 2, and after Decrement(b) the bucket is gone.
C10_CollisionMerges ==
    mu = Nil =>
        \A i \in 1..(Len(log) - 1) :
            ( /\ i + 1 = Len(log)
              /\ IsIncrement(log[i]) /\ log[i].had = FALSE
              /\ Counts(log[i + 1])
              /\ log[i + 1].ssid # log[i].ssid
              /\ GetHashCode(log[i + 1].ssid) = GetHashCode(log[i].ssid) )
            => LET h == GetHashCode(log[i].ssid)
               IN  /\ IsIncrement(log[i + 1])
                        => h \in DOMAIN m /\ m[h].Counter = 2
                                          /\ m[h].Ssid = log[i].ssid
                   /\ IsDecrement(log[i + 1]) => h \notin DOMAIN m

\* Increment([1,42]) then Decrement([42,1]) returned: the bucket of [1,42]
\* is gone though [1,42] was never decremented
C10_Witness ==
    /\ mu = Nil
    /\ Len(log) = 2
    /\ IsIncrement(log[1]) /\ log[1].ssid = <<1, 42>>
    /\ IsDecrement(log[2]) /\ log[2].ssid = <<42, 1>>
    /\ 43 \notin DOMAIN m

\* bit b of x
Bit(x, b) == (x \div (2 ^ b)) % 2

\* the ways to reorder the tokens of Ssid s: element 0 stays, the rest permutes
TokenOrders(s) ==
    {o \in [DOMAIN s -> DOMAIN s] :
        /\ o[1] = 1
        /\ \A i, j \in DOMAIN s : i # j => o[i] # o[j]}

Reordered(s, o) == [i \in DOMAIN s |-> s[o[i]]]

\* C11 (combined hash): every result of GetHashCode() on a Ssid is the
\* bitwise XOR of all its elements (bit b of the hash is the parity of the
\* number of elements with bit b set, and no higher bit is set), it is the
\* same on every call, and it is the hash of every reordering of the tokens.
C11_CombinedHash ==
    \A c \in DOMAIN xhashes :
        LET h == xhashes[c]
        IN  /\ h >= 0 /\ h \div (2 ^ 30) < 2
            /\ \A b \in 0..30 :
                  Bit(h, b) = Cardinality({j \in DOMAIN xssid : Bit(xssid[j], b) = 1}) % 2
            /\ h = xhashes[1]
            /\ \A o \in TokenOrders(xssid) : GetHashCode(Reordered(xssid, o)) = h

\* GetHashCode() was called twice on [1, 42, 2147483647]
C11_Witness ==
    /\ xssid = <<1, 42, 2147483647>>
    /\ Len(xhashes) = 2
    /\ xhashes[2] = 2147483604

\* C12 (no operation blocks indefinitely): under fair scheduling every call
\* of Increment, Decrement or All that has started returns; a caller that has
\* returned does not hold the lock; and the lock is free whenever no call is
\* in progress.
C12_NoBlocking ==
    /\ \A p \in Procs : (pc[p] # "idle") ~> (pc[p] = "idle")
    /\ [](\A p \in Procs : pc[p] = "idle" => mu # p)
    /\ []((\A p \in Procs : pc[p] = "idle") => mu = Nil)

\* a caller waits for the lock while a Decrement that found no bucket is
\* about to leave by its short path
C12_Witness ==
    \E p, q \in Procs :
        /\ pc[p] \in {"inc_lock", "dec_lock", "all_lock"}
        /\ mu = q
        /\ pc[q] = "dec_unlock"
        /\ GetHashCode(call[q].ssid) \notin DOMAIN pre

\* the number of calls of method op in the history L
CountOf(L, op) == Len(SelectSeq(L, LAMBDA e : e.op = op))

\* at no point of L are there more Decrements than Increments
NeverOverdrawn(L) ==
    \A n \in 1..Len(L) :
        CountOf(SubSeq(L, 1, n), "Increment") >= CountOf(SubSeq(L, 1, n), "Decrement")

AllReturned == \A p \in Procs : pc[p] = "idle"

\* C13 as stated (interleaving independence): once all calls have returned,
\* callers that together made as many Increment as Decrement calls for the
\* one Ssid on a new registry leave the registry in the same state whatever
\* the interleaving: the state the interleaving with all Increments first
\* leaves, a registry with no bucket.
C13_AsStated ==
    ( /\ AllReturned
      /\ harness.ssids = {<<1, 42>>}
      /\ CountOf(log, "Increment") = CountOf(log, "Decrement") )
    => m = NewSubscriptionCounters

\* C13 as amended: once all calls have returned, callers that together made
\* as many Increment as Decrement calls for the one Ssid, none of them ever
\* having made more Decrement than Increment calls, leave the registry with
\* no bucket for the Ssid's hash (a new registry is left empty) whatever the
\* interleaving.
C13_InterleavingIndependence ==
    ( /\ AllReturned
      /\ CountOf(log, "Increment") = CountOf(log, "Decrement")
      /\ \A p \in Procs : NeverOverdrawn(ByProc(p)) )
    => /\ \A ssid \in harness.ssids : GetHashCode(ssid) \notin DOMAIN m
       /\ harness.ssids = {<<1, 42>>} => m = NewSubscriptionCounters

\* two callers made one Increment and one Decrement each; the Decrement of
\* the caller that incremented last returned first
C13_Witness ==
    /\ AllReturned
    /\ Len(log) = 4
    /\ IsIncrement(log[1]) /\ IsIncrement(log[2])
    /\ IsDecrement(log[3]) /\ IsDecrement(log[4])
    /\ log[1].proc # log[2].proc
    /\ log[3].proc = log[2].proc
    /\ log[4].proc = log[1].proc
    /\ harness.ssids = {<<1, 42>>}
    /\ m = NewSubscriptionCounters

\* the state of the bucket of hash h in map mm: 0 for absent, n for active(n)
BucketState(mm, h) == IF h \in DOMAIN mm THEN mm[h].Counter ELSE 0

\* the caller holding the lock has done all of its call but the return
Completing(p) == pc[p] \in {"inc_unlock", "dec_unlock", "all_unlock"}

\* C14 (bucket state machine): from the map a call found to the map it
\* leaves, an Increment takes the bucket of its hash from absent to active(1)
\* and from active(n) to active(n+1); a Decrement takes it from active(1) to
\* absent, from active(n), n >= 2, to active(n-1), and from absent to absent;
\* All changes nothing. No bucket of any hash goes from absent to a count
\* above 1, or is removed from a count above 1, and no bucket is present with
\* a count below 1.
C14_BucketStateMachine ==
    \A p \in Procs : Completing(p) =>
        LET h == GetHashCode(call[p].ssid)
            before == BucketState(pre, h)
            after == BucketState(m, h)
        IN  /\ pc[p] = "inc_unlock" => h \in DOMAIN m /\ after = before + 1
            /\ pc[p] = "dec_unlock" =>
                  /\ before = 0 => h \notin DOMAIN m
                  /\ before = 1 => h \notin DOMAIN m
                  /\ before >= 2 => h \in DOMAIN m /\ after = before - 1
            /\ pc[p] = "all_unlock" => m = pre
            /\ \A k \in DOMAIN pre \cup DOMAIN m :
                  /\ k \in DOMAIN pre => pre[k].Counter >= 1
                  /\ k \in DOMAIN m => m[k].Counter >= 1
                  /\ k \notin DOMAIN pre => m[k].Counter = 1
                  /\ k \notin DOMAIN m => pre[k].Counter = 1

\* a Decrement has taken a bucket from active(2) to active(1)
C14_Witness ==
    \E p \in Procs :
        /\ pc[p] = "dec_unlock"
        /\ BucketState(pre, GetHashCode(call[p].ssid)) = 2
        /\ BucketState(m, GetHashCode(call[p].ssid)) = 1

\* C15 (SSID construction): the Ssid NewSsid returns has one element more
\* than the channel's query (so at least one), its first element is the
\* contract, the others are the query's token hashes unchanged and in the same
\* order; Contract() returns the first element.
C15_SsidConstruction ==
    xssid # <<>> =>
        /\ Len(xssid) = Len(xquery) + 1
        /\ Len(xssid) >= 1
        /\ xssid[1] = xcontract
        /\ \A i \in 1..Len(xquery) : xssid[i + 1] = xquery[i]
        /\ \A i \in 1..Len(xscopes) : xscopes[i] = xssid[1]

\* an Ssid built from contract 1 and the two token hashes 42 and 0, asked for
\* its contract
C15_Witness ==
    /\ xcontract = 1
    /\ xquery = <<42, 0>>
    /\ xssid = <<1, 42, 0>>
    /\ xscopes = <<1>>

\* C16 (membership test): while the calls on a Subscribers slice have been
\* made one after another, a Contains(x) call returns true exactly when an
\* earlier AddUnique call had the same handle x; no step makes Contains false
\* for a handle it was true for, and every member stays at its position.
C16_MembershipTest ==
    /\ [](~sraced =>
            \A p \in Procs : spc[p] = "scanned" =>
                (sres[p] <=> \E i \in 1..Len(slog) : slog[i] = sarg[p]))
    /\ [][~sraced =>
            /\ \A x \in Handles : Contains(subs, x) => Contains(subs', x)
            /\ Len(subs') >= Len(subs)
            /\ \A i \in 1..Len(subs) : subs'[i] = subs[i]]_vars

\* calls made one after another: the first member is found by Contains after
\* a second member was added and an AddUnique call repeated a handle
C16_Witness ==
    /\ ~sraced
    /\ Len(subs) = 2
    /\ Len(slog) = 3
    /\ \E p \in Procs :
          /\ spc[p] = "scanned"
          /\ sarg[p] = subs[1]
          /\ sres[p] = TRUE

\* C17 (no internal synchronization): a caller inside AddUnique can always
\* take its next step, whatever the other callers are doing, so nothing keeps
\* a second caller out between the check and the append of a first; a handle
\* is in the slice twice only after calls that overlapped.
C17_NoInternalSynchronization ==
    /\ \A p \in Procs : spc[p] \in {"contains", "append", "store"} => ENABLED AddUnique(p)
    /\ ~NoDuplicates(subs) => sraced

\* two AddUnique calls with the same handle have both passed the check and
\* appended: the handle is in the slice twice
C17_Witness ==
    /\ \A p \in Procs : spc[p] = "idle"
    /\ slog = <<1, 1>>
    /\ subs = <<1, 1>>

\* the completed call that created the bucket now at hash h: the last
\* Increment on h that found no bucket
IsCreator(i, h) ==
    /\ i \in 1..Len(log)
    /\ IsIncrement(log[i]) /\ GetHashCode(log[i].ssid) = h /\ log[i].had = FALSE
    /\ \A j \in (i + 1)..Len(log) :
          ~(IsIncrement(log[j]) /\ GetHashCode(log[j].ssid) = h /\ log[j].had = FALSE)

\* C18 (first creator wins): whenever no Increment or Decrement is inside the
\* lock, every bucket stores the Ssid and channel of the Increment that created
\* it; an Increment that found a bucket leaves it with the same Ssid and
\* channel and a count one higher, whatever its own Ssid and channel; and the
\* snapshot All() is about to return has, for every bucket, the creating pair.
C18_FirstCreatorWins ==
    /\ (mu = Nil \/ \E p \in Procs : pc[p] = "all_unlock") =>
          \A h \in DOMAIN m :
              \E i \in 1..Len(log) :
                  /\ IsCreator(i, h)
                  /\ m[h].Ssid = log[i].ssid
                  /\ m[h].Channel = log[i].channel
                  /\ \A p \in Procs : pc[p] = "all_unlock" =>
                        \E n \in DOMAIN heap[clone[p]] :
                            heap[clone[p]][n] = [Ssid |-> log[i].ssid,
                                                 Channel |-> log[i].channel]
    /\ \A p \in Procs :
          LET h == GetHashCode(call[p].ssid)
          IN  (pc[p] = "inc_unlock" /\ h \in DOMAIN pre)
                 => m = [pre EXCEPT ![h].Counter = @ + 1]

\* Increment([1,42], "a/b") created the bucket, Increment([42,1], "c") found
\* it, and All() is about to return the pair [1,42], "a/b"
C18_Witness ==
    /\ Len(log) = 2
    /\ IsIncrement(log[1]) /\ log[1].ssid = <<1, 42>> /\ log[1].channel = ChanAB
    /\ IsIncrement(log[2]) /\ log[2].ssid = <<42, 1>> /\ log[2].channel = ChanC
    /\ \E p \in Procs :
          /\ pc[p] = "all_unlock"
          /\ heap[clone[p]] = <<[Ssid |-> <<1, 42>>, Channel |-> ChanAB]>>

\* C19 (bucket independence): at every step of an Increment(ssid, ch) or
\* Decrement(ssid) inside the lock, whichever callers are waiting, every hash
\* other than ssid's has a bucket exactly when it had one as the call took
\* the lock, with the same count, Ssid and channel.
C19_BucketIndependence ==
    \A p \in Procs :
        pc[p] \in {"inc_get", "inc_add", "inc_unlock",
                   "dec_find", "dec_sub", "dec_gc", "dec_unlock"} =>
            \A k \in (DOMAIN pre \cup DOMAIN m) \ {GetHashCode(call[p].ssid)} :
                /\ k \in DOMAIN pre
                /\ k \in DOMAIN m
                /\ m[k] = pre[k]

\* an Increment has created the bucket of its hash while another caller waits
\* for the lock; the bucket of the other hash is as it was
C19_Witness ==
    \E p, q \in Procs :
        /\ pc[p] = "inc_unlock"
        /\ pc[q] \in {"inc_lock", "dec_lock", "all_lock"}
        /\ GetHashCode(call[p].ssid) \notin DOMAIN pre
        /\ DOMAIN pre # {}
        /\ \A k \in DOMAIN pre : k \in DOMAIN m /\ m[k] = pre[k]

====
